---- MODULE Spec2Model ----
(***************************************************************************)
(* The voice session of Sous: components/VoiceInterface.tsx.  The file     *)
(* holds two implementations of the component (lines 44-748 and lines      *)
(* 1062-1385); impl selects one, platform selects Platform.OS.             *)
(*                                                                         *)
(* Every handler of the component is an operator from a state record to a  *)
(* state record, so that a handler that calls another one (onclose calls   *)
(* stopRecording) is the composition the code runs.  An action of the      *)
(* model is one run of the event loop: a press, a socket event, a capture  *)
(* callback, or the continuation of an await.                              *)
(***************************************************************************)
EXTENDS Integers, Sequences, FiniteSets, TLC

\* ---- bounds of the model
MaxSockets == 2     \* sockets created over the component's life
MaxFrames == 4      \* frames sent over all sockets
MaxCaptures == 2    \* accepted record requests
MaxLog == 2         \* entries of the event log the model keeps: the newest ones
MaxInbound == 3     \* messages received over all sockets
MaxPlaybackSockets == 1   \* sockets created while the receiving side is examined
MaxBuffers == 3     \* numbered buffers the capture sources deliver
Resolution == 4     \* a Float32 sample is a fraction num / Resolution, or NaN
MaxSample == 6      \* with |num| <= MaxSample
MaxBlock == 2       \* samples of one input block
MaxCalls == 4       \* calls of the useRecipes operations, the mount effect's included
MaxRecipes == 2     \* rows inserted into the recipes table

\* ---- program constants (audioOptions)
sampleRate == 16000
bitsPerSample == 16
bufferSize == 4096

NULL == 0
Impls == {1, 2}
Platforms == {"web", "native"}
\* one socket more than Spec creates: SpecReconnect lets the user connect once more
SocketIds == 1 .. (MaxSockets + 1)

\* useState(false) at the first render: the value the [] effect's cleanup closes over
isRecordingAtFirstRender == FALSE

VARIABLES
  impl, platform,                 \* which implementation, which Platform.OS
  mounted,
  isRecording, isConnected, connectionStatus, messages, dataSent, chunksSent,
  wsRef, isRecordingRef,
  streamRef, audioContextRef, scriptProcessorRef,
  liveAudioStreamRef, recordingRef,
  sockets,                        \* the WebSocket objects: phase and the isRecording their handlers closed over
  sent,                           \* the frames each socket was asked to send, in order
  graphs, tracks,                 \* web: connected processors of open contexts, live media tracks
  captureSeq,                     \* capture objects created so far
  nativeState, listeners,         \* LiveAudioStream: native recorder, registered 'data' listeners
  recordings,                     \* expo-av Recording objects still recording
  accepted,                       \* per socket: record requests that passed the connection check
  pendingStarts, pendingStops,    \* startRecording / stopRecording calls suspended at their await
  lastOp,                         \* the event the last step handled
  sendStates,                     \* readyState seen by each send() call so far
  errorDuringRec,                 \* an error event was handled while recording, no record request since
  isPlayingAudio,
  soundRef, playbackAudioContextRef, audioQueueRef, isPlayingRef, audioSourceRef,
  inbound,                        \* the messages received, in arrival order: payload and what became of it
  arrived,                        \* messages received so far
  rendered,                       \* the messages whose audio began to render, in the order it began
  dequeued,                       \* the messages whose chunk was taken from audioQueueRef, in that order
  captured,                       \* numbered buffers the capture sources have delivered so far
  fnArgs, fnResult,               \* the last call of a codec function: its arguments, what it returned
  recipes, loading, error,        \* useRecipes: the hook's three state values
  stored,                         \* the ids of the user's rows in the recipes table
  calls,                          \* the calls of the hook's operations: where each one stands
  started, inserted               \* calls started so far, rows inserted so far

vars == << impl, platform, mounted, isRecording, isConnected, connectionStatus,
           messages, dataSent, chunksSent, wsRef, isRecordingRef, streamRef,
           audioContextRef, scriptProcessorRef, liveAudioStreamRef, recordingRef,
           sockets, sent, graphs, tracks, captureSeq, nativeState, listeners,
           recordings, accepted, pendingStarts, pendingStops, lastOp, sendStates,
           errorDuringRec, isPlayingAudio, soundRef, playbackAudioContextRef,
           audioQueueRef, isPlayingRef, audioSourceRef, inbound, arrived, rendered,
           dequeued, captured, fnArgs, fnResult, recipes, loading, error, stored,
           calls, started, inserted >>

Cur ==
  [ impl |-> impl, platform |-> platform, mounted |-> mounted,
    isRecording |-> isRecording, isConnected |-> isConnected,
    connectionStatus |-> connectionStatus, messages |-> messages,
    dataSent |-> dataSent, chunksSent |-> chunksSent,
    wsRef |-> wsRef, isRecordingRef |-> isRecordingRef,
    streamRef |-> streamRef, audioContextRef |-> audioContextRef,
    scriptProcessorRef |-> scriptProcessorRef,
    liveAudioStreamRef |-> liveAudioStreamRef, recordingRef |-> recordingRef,
    sockets |-> sockets, sent |-> sent, graphs |-> graphs, tracks |-> tracks,
    captureSeq |-> captureSeq, nativeState |-> nativeState, listeners |-> listeners,
    recordings |-> recordings, accepted |-> accepted,
    pendingStarts |-> pendingStarts, pendingStops |-> pendingStops,
    lastOp |-> lastOp, sendStates |-> sendStates, errorDuringRec |-> errorDuringRec,
    isPlayingAudio |-> isPlayingAudio, soundRef |-> soundRef,
    playbackAudioContextRef |-> playbackAudioContextRef,
    audioQueueRef |-> audioQueueRef, isPlayingRef |-> isPlayingRef,
    audioSourceRef |-> audioSourceRef, inbound |-> inbound, arrived |-> arrived,
    rendered |-> rendered, dequeued |-> dequeued, captured |-> captured,
    fnArgs |-> fnArgs, fnResult |-> fnResult,
    recipes |-> recipes, loading |-> loading, error |-> error, stored |-> stored,
    calls |-> calls, started |-> started, inserted |-> inserted ]

Commit(st) ==
  /\ impl' = st.impl /\ platform' = st.platform /\ mounted' = st.mounted
  /\ isRecording' = st.isRecording /\ isConnected' = st.isConnected
  /\ connectionStatus' = st.connectionStatus /\ messages' = st.messages
  /\ dataSent' = st.dataSent /\ chunksSent' = st.chunksSent
  /\ wsRef' = st.wsRef /\ isRecordingRef' = st.isRecordingRef
  /\ streamRef' = st.streamRef /\ audioContextRef' = st.audioContextRef
  /\ scriptProcessorRef' = st.scriptProcessorRef
  /\ liveAudioStreamRef' = st.liveAudioStreamRef /\ recordingRef' = st.recordingRef
  /\ sockets' = st.sockets /\ sent' = st.sent /\ graphs' = st.graphs /\ tracks' = st.tracks
  /\ captureSeq' = st.captureSeq /\ nativeState' = st.nativeState
  /\ listeners' = st.listeners /\ recordings' = st.recordings
  /\ accepted' = st.accepted
  /\ pendingStarts' = st.pendingStarts /\ pendingStops' = st.pendingStops
  /\ lastOp' = st.lastOp /\ sendStates' = st.sendStates
  /\ errorDuringRec' = st.errorDuringRec
  /\ isPlayingAudio' = st.isPlayingAudio /\ soundRef' = st.soundRef
  /\ playbackAudioContextRef' = st.playbackAudioContextRef
  /\ audioQueueRef' = st.audioQueueRef /\ isPlayingRef' = st.isPlayingRef
  /\ audioSourceRef' = st.audioSourceRef /\ inbound' = st.inbound
  /\ arrived' = st.arrived /\ rendered' = st.rendered /\ dequeued' = st.dequeued
  /\ captured' = st.captured /\ fnArgs' = st.fnArgs /\ fnResult' = st.fnResult
  /\ recipes' = st.recipes /\ loading' = st.loading /\ error' = st.error
  /\ stored' = st.stored /\ calls' = st.calls
  /\ started' = st.started /\ inserted' = st.inserted

\* ---- React state setters: a set on an unmounted component is dropped
setIsRecording(st, v) == IF st.mounted THEN [st EXCEPT !.isRecording = v] ELSE st
setIsConnected(st, v) == IF st.mounted THEN [st EXCEPT !.isConnected = v] ELSE st
setConnectionStatus(st, v) == IF st.mounted THEN [st EXCEPT !.connectionStatus = v] ELSE st
setIsPlayingAudio(st, v) == IF st.mounted THEN [st EXCEPT !.isPlayingAudio = v] ELSE st
\* setMessages(prev => [entry, ...prev]); messages holds the list's first MaxLog entries
newest(log) == SubSeq(log, 1, IF Len(log) < MaxLog THEN Len(log) ELSE MaxLog)
addMessage(st, m) == IF st.mounted THEN [st EXCEPT !.messages = newest(<<m>> \o @)] ELSE st
\* faulty variant: clearing the log also drops what is queued for playback
clearMessagesAndQueue(st) ==
  IF st.mounted THEN [st EXCEPT !.messages = << >>, !.audioQueueRef = << >>] ELSE st
clearMessages(st) == IF st.mounted THEN [st EXCEPT !.messages = << >>] ELSE st
resetStats(st) == IF st.mounted THEN [st EXCEPT !.dataSent = 0, !.chunksSent = 0] ELSE st
countChunk(st, bytes) ==
  IF st.mounted THEN [st EXCEPT !.dataSent = @ + bytes, !.chunksSent = @ + 1] ELSE st

\* ---- the WebSocket object
\* phase "ERRORED": the connection failed, readyState is CLOSED, the close event is still queued
readyState(st, ws) ==
  IF ws = NULL THEN "undefined"
  ELSE CASE st.sockets[ws].phase = "CONNECTING" -> "CONNECTING"
         [] st.sockets[ws].phase = "OPEN" -> "OPEN"
         [] st.sockets[ws].phase = "CLOSING" -> "CLOSING"
         [] OTHER -> "CLOSED"

send(st, ws, frame) ==
  [st EXCEPT !.sent[ws] = Append(@, frame),
             !.sendStates = @ \cup {readyState(st, ws)}]

close(st, ws) ==
  IF st.sockets[ws].phase \in {"CONNECTING", "OPEN"}
  THEN [st EXCEPT !.sockets[ws].phase = "CLOSING"]
  ELSE st

RECURSIVE SumLen(_, _)
SumLen(f, n) == IF n = 0 THEN 0 ELSE Len(f[n]) + SumLen(f, n - 1)
TotalSent(st) == SumLen(st.sent, MaxSockets + 1)
Created(st) == Cardinality({s \in SocketIds : st.sockets[s].phase # "NONE"})
RECURSIVE SumTo(_, _)
SumTo(f, n) == IF n = 0 THEN 0 ELSE f[n] + SumTo(f, n - 1)
Accepted(st) == SumTo(st.accepted, MaxSockets + 1)

RECURSIVE Count(_, _)
Count(frame, q) ==
  IF q = << >> THEN 0
  ELSE (IF Head(q) = frame THEN 1 ELSE 0) + Count(frame, Tail(q))

\* ---- the three kinds of frame the component sends: createWavHeader's 44 bytes,
\* a buffer of PCM16 samples, and the text frame {"event": "stop"}
\* seq tells the buffers of the capture source apart where their order is examined
wavHeaderFrame == [kind |-> "H", seq |-> 0]
pcmFrame == [kind |-> "A", seq |-> 0]
stopEventFrame == [kind |-> "S", seq |-> 0]
\* the frame made from the n-th buffer the capture source delivered
pcmFrameOf(n) == [kind |-> "A", seq |-> n]

webFrameBytes == bufferSize * (bitsPerSample \div 8)
nativeFrameBytes == bufferSize

\* ---- status strings of connectionStatus
StatusInitial == "Disconnected"
StatusConnected == "green: Connected"
StatusError == "red: Error"
StatusDisconnected == "red: Disconnected"

\* ---- connectWebSocket and the four socket handlers it installs
connectWebSocket(st) ==
  LET s == Created(st) + 1
  IN [st EXCEPT !.sockets[s] = [phase |-> "CONNECTING", isRecording |-> st.isRecording],
                !.wsRef = s]

onopen(st) ==
  addMessage(setConnectionStatus(setIsConnected(st, TRUE), StatusConnected),
             "Connected to voice server")

onerror(st) ==
  addMessage(setConnectionStatus(st, StatusError), "WebSocket connection error")

\* faulty variant: every call leaves a log entry
disconnectWebSocketLogs(st) ==
  IF st.wsRef # NULL THEN addMessage(close(st, st.wsRef), "Disconnecting...") ELSE st

disconnectWebSocket(st) ==
  IF st.wsRef # NULL THEN close(st, st.wsRef) ELSE st

\* ---- stopRecording
\* faulty variant: the send without the readyState test
sendEndOfStreamUnchecked(st) ==
  IF st.wsRef # NULL
  THEN addMessage(send(st, st.wsRef, stopEventFrame), "Sent end-of-stream message.")
  ELSE st

\* the "end of stream" send that closes stopRecording
sendEndOfStream(st) ==
  IF readyState(st, st.wsRef) = "OPEN"
  THEN addMessage(send(st, st.wsRef, stopEventFrame), "Sent end-of-stream message.")
  ELSE st

\* the web branch: disconnect the processor, close the context, stop the tracks
releaseWebAudio(st) ==
  LET s1 == IF st.scriptProcessorRef # NULL
            THEN [st EXCEPT !.graphs = @ \ {st.scriptProcessorRef}, !.scriptProcessorRef = NULL]
            ELSE st
      s2 == IF s1.audioContextRef # NULL
            THEN [s1 EXCEPT !.graphs = @ \ {s1.audioContextRef}, !.audioContextRef = NULL]
            ELSE s1
      s3 == IF s2.streamRef # NULL
            THEN [s2 EXCEPT !.tracks = @ \ {s2.streamRef}, !.streamRef = NULL]
            ELSE s2
  IN addMessage(s3, "Web audio resources released.")

\* LiveAudioStream.stop(): the native recorder winds down; buffers already on their way
\* to JavaScript are still delivered until the call's promise resolves
liveAudioStreamStop(st) ==
  IF st.nativeState = "running" THEN [st EXCEPT !.nativeState = "stopping"] ELSE st

\* faulty variant: the "end of stream" send moved ahead of the native teardown
stopRecordingSendsFirst(st) ==
  LET s1 == setIsRecording(addMessage(st, "Stopping recording..."), FALSE)
  IN IF s1.platform = "web" THEN sendEndOfStream(releaseWebAudio(s1))
     ELSE IF s1.impl = 1 /\ s1.liveAudioStreamRef
       THEN sendEndOfStream([liveAudioStreamStop(s1) EXCEPT !.pendingStops = @ + 1])
     ELSE IF s1.recordingRef # NULL
       THEN sendEndOfStream([s1 EXCEPT !.recordings = @ \ {s1.recordingRef},
                                       !.pendingStops = @ + 1])
     ELSE sendEndOfStream(s1)

\* stopRecording up to its first await (all of it when it meets none)
stopRecording(st) ==
  LET s1 == setIsRecording(addMessage(st, "Stopping recording..."), FALSE)
  IN IF s1.platform = "web" THEN sendEndOfStream(releaseWebAudio(s1))
     ELSE IF s1.impl = 1 /\ s1.liveAudioStreamRef
       THEN [liveAudioStreamStop(s1) EXCEPT !.pendingStops = @ + 1]
     ELSE IF s1.recordingRef # NULL
       THEN [s1 EXCEPT !.recordings = @ \ {s1.recordingRef}, !.pendingStops = @ + 1]
     ELSE sendEndOfStream(s1)

\* stopRecording after its await
stopRecordingResume(st) ==
  LET s0 == [st EXCEPT !.pendingStops = @ - 1]
      s1 == IF s0.impl = 1
            THEN addMessage([s0 EXCEPT !.liveAudioStreamRef = FALSE],
                            "Mobile live audio stream stopped.")
            ELSE addMessage([s0 EXCEPT !.recordingRef = NULL],
                            "Expo recording stopped and unloaded.")
  IN sendEndOfStream(s1)

\* faulty variant: the close handler leaves wsRef as it is
oncloseKeepsSocket(st, s) ==
  LET s1 == setIsConnected(st, FALSE)
      s2 == IF st.sockets[s].isRecording THEN stopRecording(s1) ELSE s1
  IN addMessage(setConnectionStatus(s2, StatusDisconnected), "Disconnected from voice server")

\* faulty variant: the close handler connects again
oncloseReconnects(st, s) ==
  LET s1 == setIsConnected(st, FALSE)
      s2 == IF st.sockets[s].isRecording THEN stopRecording(s1) ELSE s1
      s3 == addMessage(setConnectionStatus(s2, StatusDisconnected),
                       "Disconnected from voice server")
      s4 == [s3 EXCEPT !.wsRef = NULL]
  IN IF Created(s4) < MaxSockets + 1 THEN connectWebSocket(s4) ELSE s4

onclose(st, s) ==
  LET s1 == setIsConnected(st, FALSE)
      s2 == IF st.sockets[s].isRecording THEN stopRecording(s1) ELSE s1
      s3 == addMessage(setConnectionStatus(s2, StatusDisconnected),
                       "Disconnected from voice server")
  IN [s3 EXCEPT !.wsRef = NULL]

\* ---- startRecording
\* faulty variant: the connection check without the readyState test
startRecordingAcceptsAnySocket(st) ==
  st.isConnected /\ st.wsRef # NULL

\* the connection check that opens startRecording
startRecordingAccepts(st) ==
  ~(~st.isConnected \/ readyState(st, st.wsRef) # "OPEN")

\* the first line the capture starter logs before its await
startingMessage(st) ==
  IF st.platform = "web" THEN "Starting web audio recording..."
  ELSE IF st.impl = 1 THEN "Starting mobile audio streaming with live audio stream..."
  ELSE "Starting Expo audio recording (not implemented for streaming in this example)..."

\* faulty variant: the header sent only on a socket that has not carried one yet
startRecordingHeaderOncePerSocket(st) ==
  IF ~startRecordingAccepts(st) THEN st
  ELSE LET s1 == resetStats(st)
           s2 == IF Count(wavHeaderFrame, s1.sent[s1.wsRef]) = 0
                 THEN addMessage(send(s1, s1.wsRef, wavHeaderFrame), "WAV header sent (44 bytes)")
                 ELSE s1
       IN [addMessage(s2, startingMessage(s2))
             EXCEPT !.accepted[s1.wsRef] = @ + 1, !.pendingStarts = @ + 1, !.errorDuringRec = FALSE]

\* startRecording up to its first await (getUserMedia, Audio.setAudioModeAsync)
startRecording(st) ==
  IF ~startRecordingAccepts(st) THEN st
  ELSE LET s1 == resetStats(st)
           s2 == addMessage(send(s1, s1.wsRef, wavHeaderFrame), "WAV header sent (44 bytes)")
       IN [addMessage(s2, startingMessage(s2))
             EXCEPT !.accepted[s1.wsRef] = @ + 1, !.pendingStarts = @ + 1, !.errorDuringRec = FALSE]

\* startWebRecording after getUserMedia resolved: the graph source -> processor -> destination
startWebRecordingResume(st) ==
  LET g == st.captureSeq + 1
  IN addMessage([st EXCEPT !.captureSeq = g, !.streamRef = g, !.audioContextRef = g,
                           !.scriptProcessorRef = g,
                           !.graphs = @ \cup {g}, !.tracks = @ \cup {g}],
                "Web audio stream started successfully.")

\* startMobileRecording after setAudioModeAsync resolved
startMobileRecordingResume(st) ==
  addMessage([st EXCEPT !.listeners = @ + 1, !.nativeState = "running",
                        !.liveAudioStreamRef = TRUE],
             "Mobile live audio streaming started successfully.")

\* startExpoRecording after Audio.Recording.createAsync resolved
startExpoRecordingResume(st) ==
  LET r == st.captureSeq + 1
  IN addMessage([st EXCEPT !.captureSeq = r, !.recordingRef = r, !.recordings = @ \cup {r}],
                "Expo recording started (to file, not streaming).")

\* the capture starter's catch block; TRUE in the result's thrown field when it rethrows
captureFailed(st) ==
  IF st.platform = "web"
    THEN [st |-> addMessage(st, "Error getting user media: error"), thrown |-> TRUE]
  ELSE IF st.impl = 1
    THEN [st |-> addMessage(st, "Error starting mobile recording: error"), thrown |-> TRUE]
  ELSE [st |-> st, thrown |-> FALSE]

\* startRecording after the capture starter's await: ok is whether the platform call resolved
startRecordingResume(st, ok) ==
  LET s0 == [st EXCEPT !.pendingStarts = @ - 1]
      r == IF ok
           THEN [st |-> IF s0.platform = "web" THEN startWebRecordingResume(s0)
                        ELSE IF s0.impl = 1 THEN startMobileRecordingResume(s0)
                        ELSE startExpoRecordingResume(s0),
                 thrown |-> FALSE]
           ELSE captureFailed(s0)
  IN IF r.thrown THEN addMessage(r.st, "Error starting recording: error")
     ELSE setIsRecording(r.st, TRUE)

\* ---- the capture callbacks
\* the truthiness of the ref object the web callback tests (!isRecordingRef)
isRecordingRefObject == TRUE

\* faulty variant: the frame overtakes the frames sent before it
onaudioprocessOvertakes(st, frame) ==
  IF ~isRecordingRefObject \/ readyState(st, st.wsRef) # "OPEN" THEN st
  ELSE countChunk([st EXCEPT !.sent[st.wsRef] = << frame >> \o @,
                             !.sendStates = @ \cup {readyState(st, st.wsRef)}],
                  webFrameBytes)

\* processor.onaudioprocess called with the buffer that becomes frame
onaudioprocessOf(st, frame) ==
  IF ~isRecordingRefObject \/ readyState(st, st.wsRef) # "OPEN" THEN st
  ELSE countChunk(send(st, st.wsRef, frame), webFrameBytes)

onaudioprocess(st) == onaudioprocessOf(st, pcmFrame)

\* the LiveAudioStream 'data' listener called with the buffer that becomes frame
onLiveAudioDataOf(st, frame) ==
  IF st.isRecordingRef /\ readyState(st, st.wsRef) = "OPEN"
  THEN countChunk(send(st, st.wsRef, frame), nativeFrameBytes)
  ELSE st

onLiveAudioData(st) == onLiveAudioDataOf(st, pcmFrame)

\* one native buffer is handed to every registered 'data' listener
RECURSIVE emitDataOf(_, _, _)
emitDataOf(st, n, frame) ==
  IF n = 0 THEN st ELSE emitDataOf(onLiveAudioDataOf(st, frame), n - 1, frame)

emitData(st, n) == emitDataOf(st, n, pcmFrame)

\* ---- the frame codec
\* string.charCodeAt(i) of the four tags
RIFF == << 82, 73, 70, 70 >>
WAVE == << 87, 65, 86, 69 >>
fmtTag == << 102, 109, 116, 32 >>
dataTag == << 100, 97, 116, 97 >>

\* DataView.setUint32(offset, v, true) and setUint16(offset, v, true): the bytes written,
\* least significant first; v is below 2^31 for every input the model draws
setUint32(v) ==
  << v % 256, (v \div 256) % 256, (v \div 65536) % 256, (v \div 16777216) % 256 >>
setUint16(v) == << (v % 65536) % 256, ((v % 65536) \div 256) % 256 >>

numChannels == 1

\* faulty variant: the byte rate computed without the sample width
createWavHeaderFrameRate(rate, bits) ==
  RIFF \o setUint32(0) \o WAVE \o fmtTag \o setUint32(16) \o setUint16(1)
    \o setUint16(numChannels) \o setUint32(rate)
    \o setUint32(rate * numChannels)
    \o setUint16((numChannels * bits) \div 8)
    \o setUint16(bits) \o dataTag \o setUint32(0)

\* the 44 bytes of the buffer createWavHeader returns; a fractional field value is
\* truncated by the DataView setters
createWavHeader(rate, bits) ==
  RIFF \o setUint32(0) \o WAVE \o fmtTag \o setUint32(16) \o setUint16(1)
    \o setUint16(numChannels) \o setUint32(rate)
    \o setUint32((rate * numChannels * bits) \div 8)
    \o setUint16((numChannels * bits) \div 8)
    \o setUint16(bits) \o dataTag \o setUint32(0)

\* ---- the messages the server sends
FrameIds == 1 .. MaxInbound

\* a message's data: a string (json says whether JSON.parse accepts it) or an
\* ArrayBuffer holding bytes
NoPayload == [binary |-> FALSE, bytes |-> << >>, json |-> FALSE]
TextPayload == [binary |-> FALSE, bytes |-> << 111, 107 >>, json |-> FALSE]
JsonPayload == [binary |-> FALSE, bytes |-> << 123, 125 >>, json |-> TRUE]
PcmPayload == [binary |-> TRUE, bytes |-> << 0, 64, 0, 192 >>, json |-> FALSE]
OddPayload == [binary |-> TRUE, bytes |-> << 0, 64, 0 >>, json |-> FALSE]
EmptyPayload == [binary |-> TRUE, bytes |-> << >>, json |-> FALSE]
WavPayload ==
  [binary |-> TRUE, bytes |-> createWavHeader(sampleRate, bitsPerSample) \o << 0, 64 >>,
   json |-> FALSE]
Payloads == {TextPayload, JsonPayload, PcmPayload, OddPayload, EmptyPayload, WavPayload}

byteLength(data) == Len(data.bytes)

\* faulty variant: the tag at bytes 8-11 is not looked at
isWavFileRiffOnly(data) ==
  IF byteLength(data) < 12 THEN FALSE
  ELSE SubSeq(data.bytes, 1, 4) = RIFF

isWavFile(data) ==
  IF byteLength(data) < 12 THEN FALSE
  ELSE LET riff == SubSeq(data.bytes, 1, 4)
           wave == SubSeq(data.bytes, 9, 12)
       IN riff = RIFF /\ wave = WAVE

\* JSON.parse succeeds: the parsed value is logged; it throws: the raw text is logged
handleTextResponse(st, data) ==
  IF data.json THEN addMessage(st, "Server: parsed JSON")
  ELSE addMessage(st, "Server: text")

\* ---- playback on the web
\* source.start(0): the source renders when its context is running; on a closed
\* context it never renders and never ends
start(st, f) ==
  IF st.playbackAudioContextRef = "running"
  THEN [st EXCEPT !.inbound[f].st = "playing", !.rendered = Append(@, f)]
  ELSE [st EXCEPT !.inbound[f].st = "silent"]

\* playNextChunk; thrown is TRUE when createBuffer(1, 0, 16000) raised NotSupportedError
playNextChunk(st) ==
  IF st.audioQueueRef = << >>
  THEN [st |-> addMessage(setIsPlayingAudio([st EXCEPT !.isPlayingRef = FALSE], FALSE),
                          "Audio playback completed"),
        thrown |-> FALSE]
  ELSE LET chunk == Head(st.audioQueueRef)
           s1 == [st EXCEPT !.isPlayingRef = TRUE, !.audioQueueRef = Tail(@),
                            !.dequeued = Append(@, chunk.id)]
       IN IF chunk.length = 0
          THEN [st |-> [s1 EXCEPT !.inbound[chunk.id].st = "thrown"], thrown |-> TRUE]
          ELSE [st |-> start([s1 EXCEPT !.audioSourceRef = chunk.id], chunk.id),
                thrown |-> FALSE]

\* the catch block of playAudioOnWeb
playAudioOnWebCatch(st) ==
  setIsPlayingAudio(addMessage(st, "Error processing audio: error"), FALSE)

\* faulty variant: the queue head is started without the isPlayingRef test
enqueueAlwaysStarts(st, f) ==
  LET s1 == [st EXCEPT !.audioQueueRef =
                         Append(@, [id |-> f, length |-> byteLength(st.inbound[f].payload) \div 2]),
                       !.inbound[f].st = "queued"]
      r == playNextChunk(s1)
  IN IF r.thrown THEN playAudioOnWebCatch(r.st) ELSE r.st

\* the raw PCM branch after the conversion: push, and start the head when nothing plays
enqueue(st, f) ==
  LET s1 == [st EXCEPT !.audioQueueRef =
                         Append(@, [id |-> f, length |-> byteLength(st.inbound[f].payload) \div 2]),
                       !.inbound[f].st = "queued"]
      r == playNextChunk(s1)
  IN IF s1.isPlayingRef THEN s1
     ELSE IF r.thrown THEN playAudioOnWebCatch(r.st) ELSE r.st

\* playAudioOnWeb up to its await (all of it for raw PCM); new Int16Array(audioData)
\* raises RangeError when byteLength is odd
playAudioOnWeb(st, f) ==
  LET data == st.inbound[f].payload
      s1 == addMessage(setIsPlayingAudio(st, TRUE), "Processing audio chunk...")
      s2 == IF s1.playbackAudioContextRef = "null"
            THEN [s1 EXCEPT !.playbackAudioContextRef = "running"]
            ELSE s1
  IN IF isWavFile(data) THEN [s2 EXCEPT !.inbound[f].st = "decoding"]
     ELSE IF byteLength(data) % 2 # 0
       THEN playAudioOnWebCatch([s2 EXCEPT !.inbound[f].st = "dropped"])
     ELSE enqueue(s2, f)

\* playAudioOnWeb after decodeAudioData settled: ok is whether it resolved
playAudioOnWebResume(st, f, ok) ==
  IF ok THEN start(st, f)
  ELSE playAudioOnWebCatch([st EXCEPT !.inbound[f].st = "dropped"])

\* source.onended of a one-shot clip
clipEnded(st, f) ==
  addMessage(setIsPlayingAudio([st EXCEPT !.inbound[f].st = "ended"], FALSE),
             "Audio playback completed")

\* source.onended of a queued chunk; an exception of playNextChunk is uncaught here
chunkEnded(st, f) ==
  playNextChunk([st EXCEPT !.inbound[f].st = "ended"]).st

\* source.stop()
stop(st, f) ==
  IF st.inbound[f].st = "playing" THEN [st EXCEPT !.inbound[f].st = "stopped"] ELSE st

\* playbackAudioContextRef.current.close(): audio processing stops for every source
closePlaybackContext(st) ==
  [st EXCEPT !.playbackAudioContextRef = "closed",
             !.inbound = [f \in FrameIds |->
                            IF @[f].st = "playing" /\ st.platform = "web"
                            THEN [@[f] EXCEPT !.st = "stopped"]
                            ELSE @[f]]]

\* ---- playback on the native platforms
\* playAudioOnMobile up to its await
playAudioOnMobile(st, f) ==
  [addMessage(setIsPlayingAudio(st, TRUE), "Playing audio response...")
     EXCEPT !.inbound[f].st = "creating"]

\* playAudioOnMobile after Audio.Sound.createAsync({uri}, {shouldPlay: true}) settled
playAudioOnMobileResume(st, f, ok) ==
  IF ok
  THEN [st EXCEPT !.soundRef = f, !.inbound[f].st = "playing", !.rendered = Append(@, f)]
  ELSE setIsPlayingAudio(addMessage([st EXCEPT !.inbound[f].st = "dropped"],
                                    "Error playing audio: error"), FALSE)

\* the status callback with didJustFinish: the sound stays loaded
onPlaybackStatusUpdate(st, f) ==
  addMessage(setIsPlayingAudio([st EXCEPT !.inbound[f].st = "finished"], FALSE),
             "Audio playback completed")

\* sound.unloadAsync()
unloadAsync(st, f) ==
  IF st.inbound[f].st \in {"playing", "finished"}
  THEN [st EXCEPT !.inbound[f].st = "unloaded"]
  ELSE st

\* ---- onmessage
handleAudioResponse(st, f) ==
  IF st.platform = "web" THEN playAudioOnWeb(st, f) ELSE playAudioOnMobile(st, f)

onmessage(st, data) ==
  LET f == st.arrived + 1
      s1 == [st EXCEPT !.arrived = f, !.inbound[f] = [payload |-> data, st |-> "text"]]
  IN IF s1.impl = 2 THEN addMessage(s1, "Server: data")
     ELSE IF data.binary THEN handleAudioResponse(s1, f)
     ELSE handleTextResponse(s1, data)

\* ---- the [] effect's cleanup, run at unmount
cleanup(st) ==
  LET s0 == [st EXCEPT !.mounted = FALSE]
      s1 == disconnectWebSocket(s0)
      s2 == IF isRecordingAtFirstRender THEN stopRecording(s1) ELSE s1
      s3 == IF s2.impl = 1 /\ s2.liveAudioStreamRef THEN liveAudioStreamStop(s2) ELSE s2
      s4 == IF s3.soundRef # NULL THEN unloadAsync(s3, s3.soundRef) ELSE s3
      s5 == IF s4.audioSourceRef # NULL THEN stop(s4, s4.audioSourceRef) ELSE s4
      s6 == IF s5.playbackAudioContextRef # "null" THEN closePlaybackContext(s5) ELSE s5
  IN IF s2.impl = 1 THEN [s6 EXCEPT !.audioQueueRef = << >>, !.isPlayingRef = FALSE] ELSE s3

\* ---- useRecipes (hooks/useRecipes.ts), called with a userId that is not null
CallIds == 1 .. MaxCalls
RecipeIds == 1 .. MaxRecipes

NoError == "null"

\* one call of an operation: the await it is suspended at (pc), the recipe it is about,
\* what the database answered (ok, data), the vector-store requests it made (chroma),
\* and what it returned
NoCall ==
  [kind |-> "none", pc |-> "none", id |-> 0, ok |-> FALSE, data |-> << >>,
   chroma |-> 0, result |-> "none"]

setRecipes(st, v) == [st EXCEPT !.recipes = v]
setLoading(st, v) == [st EXCEPT !.loading = v]
setError(st, v) == [st EXCEPT !.error = v]

\* the rows of a select ordered by created_at descending: the newest id first
RECURSIVE descending(_)
descending(S) ==
  IF S = {} THEN << >>
  ELSE LET m == CHOOSE x \in S : \A y \in S : y <= x
       IN << m >> \o descending(S \ {m})

\* prev.filter(recipe => recipe.id !== id)
RECURSIVE without(_, _)
without(list, id) ==
  IF list = << >> THEN << >>
  ELSE IF Head(list) = id THEN without(Tail(list), id)
  ELSE << Head(list) >> \o without(Tail(list), id)

\* the operation's first statements, up to its first await
begin(st, kind, id, pc) ==
  LET c == st.started + 1
  IN [setError(setLoading(st, TRUE), NoError)
        EXCEPT !.started = c,
               !.calls[c] = [NoCall EXCEPT !.kind = kind, !.id = id, !.pc = pc]]

\* the operation's return, after its finally block
finish(st, c, result) ==
  [setLoading(st, FALSE) EXCEPT !.calls[c].pc = "done", !.calls[c].result = result,
                                !.calls[c].data = << >>]

fetchRecipes(st) == begin(st, "fetchRecipes", 0, "db")
addRecipe(st) == begin(st, "addRecipe", 0, "db")
parseRecipeFromUrl(st) == begin(st, "parseRecipeFromUrl", 0, "parse")
updateRecipe(st, id) == begin(st, "updateRecipe", id, "db")
deleteRecipe(st, id) == begin(st, "deleteRecipe", id, "db")

\* the database executes the call's statement: ok is whether it answers without error;
\* an update of a row that is not there answers an error (.single())
database(st, c, ok) ==
  LET k == st.calls[c].kind
      s1 == [st EXCEPT !.calls[c].pc = "dbReplied", !.calls[c].ok = ok]
  IN IF ~ok THEN s1
     ELSE IF k = "fetchRecipes" THEN [s1 EXCEPT !.calls[c].data = descending(st.stored)]
     ELSE IF k \in {"addRecipe", "parseRecipeFromUrl"}
       THEN [s1 EXCEPT !.inserted = @ + 1, !.stored = @ \cup {st.inserted + 1},
                       !.calls[c].id = st.inserted + 1]
     ELSE IF k = "updateRecipe"
       THEN [s1 EXCEPT !.calls[c].ok = st.calls[c].id \in st.stored]
     ELSE [s1 EXCEPT !.stored = @ \ {st.calls[c].id}]

\* fetchRecipes after its await
fetchRecipesResume(st, c) ==
  finish(IF st.calls[c].ok THEN setRecipes(st, st.calls[c].data)
         ELSE setError(st, "Failed to fetch recipes"),
         c, "void")

\* the request to the vector store is made
fetchChroma(st, c, pc) == [st EXCEPT !.calls[c].pc = pc, !.calls[c].chroma = @ + 1]

\* addRecipe after the insert's await; parseRecipeFromUrl returns what addRecipe returned
addRecipeResume(st, c) ==
  IF st.calls[c].ok THEN fetchChroma(st, c, "chromaUpload")
  ELSE finish(setError(st, "Failed to add recipe"), c, "error")

\* addRecipe after the upload's await, whatever its outcome
addRecipeResumeChroma(st, c) ==
  finish(setRecipes(st, << st.calls[c].id >> \o st.recipes), c, "data")

\* parseRecipeFromUrl after the GET's await: ok is whether the response was ok and parsed;
\* then the nested addRecipe up to its first await
parseRecipeFromUrlResume(st, c, ok) ==
  IF ok THEN [setError(setLoading(st, TRUE), NoError) EXCEPT !.calls[c].pc = "db"]
  ELSE finish(setError(st, "Failed to parse recipe from URL"), c, "error")

\* updateRecipe after the update's await
updateRecipeResume(st, c) ==
  IF st.calls[c].ok THEN fetchChroma(st, c, "chromaDelete")
  ELSE finish(setError(st, "Failed to update recipe"), c, "error")

\* updateRecipe after an await of its inner try block: thrown is whether the request
\* raised; prev.map replaces the row and leaves the ids as they are
updateRecipeResumeChroma(st, c, thrown) ==
  IF st.calls[c].pc = "chromaDelete" /\ ~thrown THEN fetchChroma(st, c, "chromaUpload")
  ELSE finish(st, c, "data")

\* faulty variant: the local list is filtered whatever the database answered
deleteRecipeResumeFiltersFirst(st, c) ==
  IF st.calls[c].ok
  THEN fetchChroma(setRecipes(st, without(st.recipes, st.calls[c].id)), c, "chromaDelete")
  ELSE finish(setError(setRecipes(st, without(st.recipes, st.calls[c].id)),
                       "Failed to delete recipe"), c, "error")

\* deleteRecipe after the delete's await
deleteRecipeResume(st, c) ==
  IF st.calls[c].ok THEN fetchChroma(st, c, "chromaDelete")
  ELSE finish(setError(st, "Failed to delete recipe"), c, "error")

\* deleteRecipe after the vector-store request's await, whatever its outcome
deleteRecipeResumeChroma(st, c) ==
  finish(setRecipes(st, without(st.recipes, st.calls[c].id)), c, "success")

\* ---- the state after the first render
Init ==
  /\ impl \in Impls /\ platform \in Platforms
  /\ mounted = TRUE
  /\ isRecording = FALSE /\ isConnected = FALSE
  /\ connectionStatus = StatusInitial
  /\ messages = IF platform = "web"
                THEN << "Web platform detected. Mic permission will be requested on record." >>
                ELSE << >>
  /\ dataSent = 0 /\ chunksSent = 0
  /\ wsRef = NULL /\ isRecordingRef = FALSE
  /\ streamRef = NULL /\ audioContextRef = NULL /\ scriptProcessorRef = NULL
  /\ liveAudioStreamRef = FALSE /\ recordingRef = NULL
  /\ sockets = [s \in SocketIds |-> [phase |-> "NONE", isRecording |-> FALSE]]
  /\ sent = [s \in SocketIds |-> << >>]
  /\ graphs = {} /\ tracks = {} /\ captureSeq = 0
  /\ nativeState = "stopped" /\ listeners = 0 /\ recordings = {}
  /\ accepted = [s \in SocketIds |-> 0] /\ pendingStarts = 0 /\ pendingStops = 0
  /\ lastOp = "mount" /\ sendStates = {} /\ errorDuringRec = FALSE
  /\ isPlayingAudio = FALSE /\ soundRef = NULL /\ playbackAudioContextRef = "null"
  /\ audioQueueRef = << >> /\ isPlayingRef = FALSE /\ audioSourceRef = NULL
  /\ inbound = [f \in FrameIds |-> [payload |-> NoPayload, st |-> "none"]]
  /\ arrived = 0 /\ rendered = << >> /\ dequeued = << >>
  /\ captured = 0 /\ fnArgs = << >> /\ fnResult = << >>
  /\ recipes = << >> /\ loading = FALSE /\ error = NoError
  /\ stored = {} /\ calls = [c \in CallIds |-> NoCall]
  /\ started = 0 /\ inserted = 0

\* ---- one run of the event loop
Step(op, st) ==
  /\ TotalSent(st) <= MaxFrames
  /\ Accepted(st) <= MaxCaptures
  /\ Commit([st EXCEPT !.lastOp = op])

\* the Connect button is rendered while not connected
ConnectPressUpTo(n) ==
  /\ mounted /\ ~isConnected
  /\ Created(Cur) < n
  /\ Step("connectWebSocket", connectWebSocket(Cur))

ConnectPress == ConnectPressUpTo(MaxSockets)

\* the Disconnect button is rendered while connected
DisconnectPress ==
  /\ mounted /\ isConnected
  /\ Step("disconnectWebSocket", disconnectWebSocket(Cur))

SocketOpen(s) ==
  /\ sockets[s].phase = "CONNECTING"
  /\ Step("onopen", onopen([Cur EXCEPT !.sockets[s].phase = "OPEN"]))

SocketError(s) ==
  /\ sockets[s].phase \in {"CONNECTING", "OPEN"}
  /\ Step("onerror",
          [onerror([Cur EXCEPT !.sockets[s].phase = "ERRORED"])
             EXCEPT !.errorDuringRec = @ \/ (isRecording /\ s = wsRef)])

SocketClose(s) ==
  /\ sockets[s].phase \in {"OPEN", "CLOSING", "ERRORED"}
  /\ Step(IF sockets[s].isRecording THEN "oncloseStopRecording" ELSE "onclose",
          onclose([Cur EXCEPT !.sockets[s].phase = "CLOSED"], s))

\* the record button is enabled while connected and runs startRecording while not recording
RecordPress ==
  /\ mounted /\ isConnected /\ ~isRecording
  /\ Step(IF startRecordingAccepts(Cur) THEN "startRecording" ELSE "startRecordingRejected",
          startRecording(Cur))

\* the same button runs stopRecording while recording
StopPress ==
  /\ mounted /\ isConnected /\ isRecording
  /\ Step("stopRecording", stopRecording(Cur))

StartRecordingResume ==
  /\ pendingStarts > 0
  /\ \E ok \in BOOLEAN :
       Step(IF ok THEN "captureStarted" ELSE "captureFailed", startRecordingResume(Cur, ok))

StopRecordingResume ==
  /\ pendingStops > 0
  /\ nativeState # "stopping"
  /\ Step("stopRecordingResume", stopRecordingResume(Cur))

NativeStopComplete ==
  /\ nativeState = "stopping"
  /\ Step("nativeStopped", [Cur EXCEPT !.nativeState = "stopped"])

OnAudioProcess(g) ==
  /\ g \in graphs
  /\ Step("onaudioprocess", onaudioprocess(Cur))

LiveAudioData ==
  /\ nativeState \in {"running", "stopping"}
  /\ listeners > 0
  /\ Step("onLiveAudioData", emitData(Cur, listeners))

\* useEffect(() => { isRecordingRef.current = isRecording }, [isRecording])
SyncRecordingRef ==
  /\ mounted /\ isRecordingRef # isRecording
  /\ Step("syncRecordingRef", [Cur EXCEPT !.isRecordingRef = isRecording])

ClearPress ==
  /\ mounted /\ messages # << >>
  /\ Step("clearMessages", clearMessages(Cur))

Unmount ==
  /\ mounted
  /\ Step("unmount", cleanup(Cur))

Next ==
  \/ ConnectPress
  \/ DisconnectPress
  \/ \E s \in SocketIds : SocketOpen(s)
  \/ \E s \in SocketIds : SocketError(s)
  \/ \E s \in SocketIds : SocketClose(s)
  \/ RecordPress
  \/ StopPress
  \/ StartRecordingResume
  \/ StopRecordingResume
  \/ NativeStopComplete
  \/ \E g \in 1 .. MaxCaptures : OnAudioProcess(g)
  \/ LiveAudioData
  \/ SyncRecordingRef
  \/ ClearPress
  \/ Unmount

Spec == Init /\ [][Next]_vars

\* ---- the receiving side: the session connects and disconnects, the server sends
\* messages, and the platform plays what they carry; nothing is recorded
SocketMessageOf(s, datas) ==
  /\ sockets[s].phase = "OPEN" \/ (platform = "native" /\ sockets[s].phase = "CLOSING")
  /\ arrived < MaxInbound
  /\ \E data \in datas : Step("onmessage", onmessage(Cur, data))

SocketMessage(s) == SocketMessageOf(s, Payloads)

DecodeSettled(f) ==
  /\ inbound[f].st = "decoding"
  /\ \E ok \in BOOLEAN :
       Step(IF ok THEN "decoded" ELSE "decodeFailed", playAudioOnWebResume(Cur, f, ok))

SourceEnded(f) ==
  /\ platform = "web"
  /\ inbound[f].st \in {"playing", "stopped"}
  /\ Step("onended",
          IF isWavFile(inbound[f].payload) THEN clipEnded(Cur, f) ELSE chunkEnded(Cur, f))

SoundCreated(f) ==
  /\ inbound[f].st = "creating"
  /\ \E ok \in BOOLEAN :
       Step(IF ok THEN "soundCreated" ELSE "soundFailed", playAudioOnMobileResume(Cur, f, ok))

SoundFinished(f) ==
  /\ platform = "native"
  /\ inbound[f].st = "playing"
  /\ Step("soundFinished", onPlaybackStatusUpdate(Cur, f))

ConnectOncePress == ConnectPressUpTo(MaxPlaybackSockets)

NextPlayback ==
  \/ ConnectOncePress
  \/ DisconnectPress
  \/ \E s \in SocketIds : SocketOpen(s)
  \/ \E s \in SocketIds : SocketClose(s)
  \/ \E s \in SocketIds : SocketMessage(s)
  \/ \E f \in FrameIds : DecodeSettled(f)
  \/ \E f \in FrameIds : SourceEnded(f)
  \/ \E f \in FrameIds : SoundCreated(f)
  \/ \E f \in FrameIds : SoundFinished(f)
  \/ Unmount

SpecPlayback == Init /\ [][NextPlayback]_vars

InitWeb == Init /\ impl = 1 /\ platform = "web"

\* ---- the receiving side of the first implementation on the web with as many sockets
\* as Spec creates: a socket the session no longer refers to still delivers messages,
\* after the teardown too
NextPlaybackWeb ==
  \/ ConnectPress
  \/ DisconnectPress
  \/ \E s \in SocketIds : SocketOpen(s)
  \/ \E s \in SocketIds : SocketClose(s)
  \/ \E s \in SocketIds : SocketMessage(s)
  \/ \E f \in FrameIds : DecodeSettled(f)
  \/ \E f \in FrameIds : SourceEnded(f)
  \/ Unmount

SpecPlaybackWeb == InitWeb /\ [][NextPlaybackWeb]_vars

\* ---- the first implementation on the web, one socket, receiving binary messages that
\* are containers, or differ from one in a single respect
riffWave12 == RIFF \o setUint32(36) \o WAVE
ClassifyBuffers ==
  {SubSeq(riffWave12, 1, 4), SubSeq(riffWave12, 1, 11), riffWave12,
   WAVE \o setUint32(36) \o RIFF, << 0 >> \o riffWave12,
   WavPayload.bytes, PcmPayload.bytes}
    \cup {[riffWave12 EXCEPT ![i] = 0] : i \in {1, 4, 5, 9, 12}}
ClassifyPayloads == {[binary |-> TRUE, bytes |-> b, json |-> FALSE] : b \in ClassifyBuffers}

SocketBuffer(s) == SocketMessageOf(s, ClassifyPayloads)

NextClassify ==
  \/ ConnectOncePress
  \/ \E s \in SocketIds : SocketOpen(s)
  \/ \E s \in SocketIds : SocketBuffer(s)
  \/ \E f \in FrameIds : DecodeSettled(f)
  \/ \E f \in FrameIds : SourceEnded(f)

SpecClassify == InitWeb /\ [][NextClassify]_vars

\* ---- the first implementation on the web, one socket, receiving with nothing torn
\* down, where every source that was started fires its ended event in the end
NextScheduler ==
  \/ ConnectOncePress
  \/ \E s \in SocketIds : SocketOpen(s)
  \/ \E s \in SocketIds : SocketMessage(s)
  \/ \E f \in FrameIds : DecodeSettled(f)
  \/ \E f \in FrameIds : SourceEnded(f)

SpecScheduler ==
  /\ InitWeb /\ [][NextScheduler]_vars
  /\ \A f \in FrameIds : WF_vars(SourceEnded(f))

\* ---- the recipes screen: the mount effect fetches, then the user refreshes, adds,
\* parses, updates and deletes while earlier calls are still in flight
InList(id) == \E i \in 1 .. Len(recipes) : recipes[i] = id

MountEffect ==
  /\ started = 0
  /\ Step("fetchRecipes", fetchRecipes(Cur))

FetchRecipesCall ==
  /\ started > 0 /\ started < MaxCalls
  /\ Step("fetchRecipes", fetchRecipes(Cur))

AddRecipeCall ==
  /\ started > 0 /\ started < MaxCalls
  /\ Step("addRecipe", addRecipe(Cur))

ParseRecipeFromUrlCall ==
  /\ started > 0 /\ started < MaxCalls
  /\ Step("parseRecipeFromUrl", parseRecipeFromUrl(Cur))

UpdateRecipeCall ==
  /\ started > 0 /\ started < MaxCalls
  /\ \E id \in RecipeIds : InList(id) /\ Step("updateRecipe", updateRecipe(Cur, id))

DeleteRecipeCall ==
  /\ started > 0 /\ started < MaxCalls
  /\ \E id \in RecipeIds : InList(id) /\ Step("deleteRecipe", deleteRecipe(Cur, id))

DatabaseReply(c) ==
  /\ calls[c].pc = "db"
  /\ calls[c].kind \in {"addRecipe", "parseRecipeFromUrl"} => inserted < MaxRecipes
  /\ \E ok \in BOOLEAN : Step("database", database(Cur, c, ok))

DatabaseSettled(c) ==
  /\ calls[c].pc = "dbReplied"
  /\ Step("resume",
          IF calls[c].kind = "fetchRecipes" THEN fetchRecipesResume(Cur, c)
          ELSE IF calls[c].kind = "updateRecipe" THEN updateRecipeResume(Cur, c)
          ELSE IF calls[c].kind = "deleteRecipe" THEN deleteRecipeResume(Cur, c)
          ELSE addRecipeResume(Cur, c))

ParseSettled(c) ==
  /\ calls[c].pc = "parse"
  /\ \E ok \in BOOLEAN : Step("resume", parseRecipeFromUrlResume(Cur, c, ok))

ChromaSettled(c) ==
  /\ calls[c].pc \in {"chromaUpload", "chromaDelete"}
  /\ \E thrown \in BOOLEAN :
       Step(IF thrown THEN "resumeChromaFailed" ELSE "resumeChroma",
            IF calls[c].kind = "updateRecipe" THEN updateRecipeResumeChroma(Cur, c, thrown)
            ELSE IF calls[c].kind = "deleteRecipe" THEN deleteRecipeResumeChroma(Cur, c)
            ELSE addRecipeResumeChroma(Cur, c))

NextRecipes ==
  \/ MountEffect
  \/ FetchRecipesCall
  \/ AddRecipeCall
  \/ ParseRecipeFromUrlCall
  \/ UpdateRecipeCall
  \/ DeleteRecipeCall
  \/ \E c \in CallIds : DatabaseReply(c)
  \/ \E c \in CallIds : DatabaseSettled(c)
  \/ \E c \in CallIds : ParseSettled(c)
  \/ \E c \in CallIds : ChromaSettled(c)

SpecRecipes == InitWeb /\ [][NextRecipes]_vars

\* ---- the first implementation on the web, one socket, recording and receiving at
\* the same time while the user clears the log; no decode settles, nothing is unmounted
NextLog ==
  \/ ConnectOncePress
  \/ \E s \in SocketIds : SocketOpen(s)
  \/ \E s \in SocketIds : SocketClose(s)
  \/ RecordPress
  \/ StopPress
  \/ StartRecordingResume
  \/ \E g \in 1 .. MaxCaptures : OnAudioProcess(g)
  \/ \E s \in SocketIds : SocketMessage(s)
  \/ \E f \in FrameIds : SourceEnded(f)
  \/ ClearPress

SpecLog == InitWeb /\ [][NextLog]_vars

\* ---- the sending side of the first implementation with one socket, the buffers of
\* the capture sources numbered in the order they are delivered
OnAudioProcessBuffer(g) ==
  /\ g \in graphs
  /\ captured < MaxBuffers
  /\ Step("onaudioprocess",
          onaudioprocessOf([Cur EXCEPT !.captured = @ + 1], pcmFrameOf(captured + 1)))

LiveAudioBuffer ==
  /\ nativeState \in {"running", "stopping"}
  /\ listeners > 0
  /\ captured < MaxBuffers
  /\ Step("onLiveAudioData",
          emitDataOf([Cur EXCEPT !.captured = @ + 1], listeners, pcmFrameOf(captured + 1)))

InitFirst == Init /\ impl = 1

NextOrder ==
  \/ ConnectOncePress
  \/ DisconnectPress
  \/ \E s \in SocketIds : SocketOpen(s)
  \/ \E s \in SocketIds : SocketClose(s)
  \/ RecordPress
  \/ StopPress
  \/ StartRecordingResume
  \/ StopRecordingResume
  \/ NativeStopComplete
  \/ \E g \in 1 .. MaxCaptures : OnAudioProcessBuffer(g)
  \/ LiveAudioBuffer
  \/ SyncRecordingRef

SpecOrder == InitFirst /\ [][NextOrder]_vars

\* ---- the capture conversion (onaudioprocess, the loop over inputData)
NaN == [num |-> 0, nan |-> TRUE]
Samples == [num : (0 - MaxSample)..MaxSample, nan : {FALSE}] \cup {NaN}

\* a quotient a / d as an Int16Array element stores it: the fraction dropped, then
\* reduced modulo 2^16 into the signed range
truncate(a, d) == IF a < 0 THEN 0 - ((0 - a) \div d) ELSE a \div d
toInt16(v) == ((v + 32768) % 65536) - 32768

\* faulty variant: the sample scaled without being clamped first
floatToPcm16Unclamped(x) ==
  IF x.nan THEN 0
  ELSE toInt16(truncate(IF x.num < 0 THEN x.num * 32768 ELSE x.num * 32767, Resolution))

\* Math.max(-1, Math.min(1, x)) and the scaling by 0x8000 or 0x7FFF; NaN passes through
\* min, max and the product and is stored as 0
floatToPcm16(x) ==
  IF x.nan THEN 0
  ELSE LET lo == IF x.num < Resolution THEN x.num ELSE Resolution
           s == IF lo > 0 - Resolution THEN lo ELSE 0 - Resolution
       IN toInt16(truncate(IF s < 0 THEN s * 32768 ELSE s * 32767, Resolution))

pcm16Data(inputData) == [i \in 1..Len(inputData) |-> floatToPcm16(inputData[i])]

InputBlocks == UNION {[1..n -> Samples] : n \in 1..MaxBlock}

\* ---- the codec functions called on their own, with arguments drawn from small sets
SampleRates == {8000, 11025, 16000, 22050, 44100, 48000}
BitDepths == {8, 12, 16, 24, 32}

CreateWavHeaderCall ==
  \E rate \in SampleRates, bits \in BitDepths :
    Step("createWavHeader",
         [Cur EXCEPT !.fnArgs = << rate, bits >>, !.fnResult = createWavHeader(rate, bits)])

ConvertCall ==
  \E inputData \in InputBlocks :
    Step("convert", [Cur EXCEPT !.fnArgs = inputData, !.fnResult = pcm16Data(inputData)])

NextCodec ==
  \/ CreateWavHeaderCall
  \/ ConvertCall

SpecCodec == Init /\ [][NextCodec]_vars

\* ---- the first implementation on the web, connecting once more than Spec does,
\* with no socket error, no unmount and no clearing of the log
ConnectAgainPress == ConnectPressUpTo(MaxSockets + 1)

NextReconnect ==
  \/ ConnectAgainPress
  \/ DisconnectPress
  \/ \E s \in SocketIds : SocketOpen(s)
  \/ \E s \in SocketIds : SocketClose(s)
  \/ RecordPress
  \/ StopPress
  \/ StartRecordingResume
  \/ \E g \in 1 .. MaxCaptures : OnAudioProcess(g)
  \/ SyncRecordingRef

SpecReconnect == InitWeb /\ [][NextReconnect]_vars

\* ---- what the claims speak of
AudioFrames == SumTo([s \in SocketIds |-> Count(pcmFrame, sent[s])], MaxSockets + 1)

\* the capture source is released: no processor fires, no track is live, no recorder runs
CaptureReleased ==
  /\ graphs = {} /\ tracks = {}
  /\ nativeState # "running"
  /\ recordings = {}

captureRefs ==
  << streamRef, audioContextRef, scriptProcessorRef, liveAudioStreamRef, recordingRef >>

captureState ==
  << captureRefs, graphs, tracks, captureSeq, nativeState, listeners, recordings >>

ErrorEntries ==
  { "Error getting user media: error", "Error starting mobile recording: error",
    "Error starting recording: error" }

C2_NoAudioBeforeHeader ==
  \A s \in SocketIds : \A i \in 1 .. Len(sent[s]) :
    sent[s][i] = pcmFrame => \E j \in 1 .. (i - 1) : sent[s][j] = wavHeaderFrame

\* C3: the frames of every socket are framed in turns, header, audio frames, one stop
\* frame: a header opens the socket's frames or follows a stop frame, and an audio
\* frame or a stop frame follows a header or an audio frame.
C3_TurnFraming ==
  \A s \in SocketIds : \A i \in 1 .. Len(sent[s]) :
    IF sent[s][i] = wavHeaderFrame
    THEN i = 1 \/ sent[s][i - 1] = stopEventFrame
    ELSE i > 1 /\ sent[s][i - 1] \in {wavHeaderFrame, pcmFrame}

\* C4: when the close event of the session's socket is handled while recording, the
\* recording is stopped: afterwards isRecording is false and the capture source released.
C4_CloseStopsRecording ==
  [][ ( /\ lastOp' \in {"onclose", "oncloseStopRecording"}
        /\ wsRef # NULL /\ sockets[wsRef].phase # "CLOSED" /\ sockets'[wsRef].phase = "CLOSED"
        /\ mounted /\ isRecording )
      => (~isRecording' /\ CaptureReleased') ]_vars

\* C5: after an error event handled while recording, the close event that follows it
\* leaves the session disconnected, and no audio frame is sent until the user asks to
\* record again.
C5_ErrorHaltsTransmission ==
  [][ /\ (errorDuringRec /\ errorDuringRec') => AudioFrames' = AudioFrames
      /\ ( /\ errorDuringRec /\ mounted /\ wsRef # NULL
           /\ sockets[wsRef].phase = "ERRORED" /\ sockets'[wsRef].phase = "CLOSED" )
         => ~isConnected' ]_vars

\* C6: stopRecording run while the session is connected, its socket OPEN, and not
\* recording sends nothing and leaves isRecording and the capture references as they were.
C6_StopWhileNotRecordingIsNoOp ==
  [][ ( /\ lastOp' \in {"stopRecording", "oncloseStopRecording"}
        /\ isConnected /\ ~isRecording /\ readyState(Cur, wsRef) = "OPEN" )
      => UNCHANGED << sent, isRecording, captureRefs >> ]_vars

\* C7: a record request made while isConnected is false or the socket is absent or not
\* OPEN sends nothing, starts no capture source, leaves isRecording false and does not
\* reset the statistics.
C7_RejectedRecordIsNoOp ==
  [][ ( /\ lastOp' \in {"startRecording", "startRecordingRejected"}
        /\ (~isConnected \/ readyState(Cur, wsRef) # "OPEN") )
      => ( /\ UNCHANGED << sent, sendStates, captureState, pendingStarts, accepted >>
           /\ ~isRecording'
           /\ UNCHANGED << dataSent, chunksSent >> ) ]_vars

C7_Witness ==
  /\ lastOp = "startRecordingRejected"
  /\ chunksSent > 0

\* C8: when the capture source fails to start, the session does not enter Recording
\* and the event log's newest entry reports the failure.
C8_CaptureFailureSurfaced ==
  [][ lastOp' = "captureFailed"
      => ( /\ (~isRecording => ~isRecording')
           /\ (mounted => (messages' # << >> /\ messages'[1] \in ErrorEntries)) ) ]_vars

\* C9: once the unmount cleanup has run, the capture source is stopped and the socket
\* is closed or closing.
C9_TeardownReleases ==
  lastOp = "unmount" =>
    /\ CaptureReleased
    /\ wsRef # NULL => sockets[wsRef].phase \notin {"CONNECTING", "OPEN"}

\* C10: every frame was handed to a socket whose readyState was OPEN.
C10_SendOnlyWhenOpen ==
  sendStates \subseteq {"OPEN"}

\* close was requested on the socket and a capture callback or a stop ran after that
C10_Witness ==
  /\ wsRef # NULL /\ sockets[wsRef].phase = "CLOSING"
  /\ lastOp \in {"onaudioprocess", "onLiveAudioData", "stopRecording", "stopRecordingResume"}
  /\ sendStates = {"OPEN"}

\* ---- what the playback claims speak of
\* what a binary message becomes: a native sound, a one-shot clip, or a queued chunk
kindOf(f) ==
  IF platform = "native" THEN "sound"
  ELSE IF isWavFile(inbound[f].payload) THEN "clip"
  ELSE "chunk"

Playing == {f \in FrameIds : inbound[f].st = "playing"}
PlayingChunks == {f \in Playing : kindOf(f) = "chunk"}
\* a queued chunk's source whose ended event has not been handled yet
CompletionPending == {f \in FrameIds : kindOf(f) = "chunk" /\ inbound[f].st \in {"playing", "stopped"}}

Increasing(q) == \A i, j \in 1 .. Len(q) : i < j => q[i] < q[j]

\* C11: the audio of the messages begins to render in the order the messages arrived.
C11_RenderedInArrivalOrder ==
  Increasing(rendered)

C13_NoOverlap ==
  Cardinality(Playing) <= 1

\* C14: whenever the queue is not empty, a queued chunk is playing or the ended
\* callback of one is pending.
C14_NoIdleGap ==
  audioQueueRef # << >> => CompletionPending # {}

\* the session's socket was closed by the user or by the peer
Disconnected == wsRef = NULL \/ sockets[wsRef].phase \notin {"CONNECTING", "OPEN"}

\* C15: a disconnect, by the Disconnect button or by the close event, leaves the queue
\* empty, and while the session is disconnected no queued chunk is started.
C15_DisconnectTruncatesPlayback ==
  [][ /\ lastOp' \in {"disconnectWebSocket", "onclose", "oncloseStopRecording"}
          => audioQueueRef' = << >>
      /\ (mounted /\ Disconnected /\ Disconnected') => dequeued' = dequeued ]_vars

PlaybackErrorEntries == {"Error processing audio: error", "Error playing audio: error"}

\* the step in which the payload of message f is found not to be playable
Undecodable(f) ==
  /\ inbound[f].st \notin {"dropped", "thrown"}
  /\ inbound'[f].st \in {"dropped", "thrown"}

\* C16: the step that finds a payload not playable leaves the connection as it was and
\* logs the failure, and the scheduler is never left marked as playing with no chunk
\* playing and no ended callback pending.
C16_BadPayloadDropped ==
  [][ /\ (mounted /\ \E f \in FrameIds : Undecodable(f))
          => ( /\ UNCHANGED << isConnected, connectionStatus, wsRef, sockets >>
               /\ messages' # << >> /\ messages'[1] \in PlaybackErrorEntries )
      /\ (mounted' /\ isPlayingRef') => CompletionPending' # {} ]_vars

\* a native sound that has been created and not unloaded
Loaded == {f \in FrameIds : kindOf(f) = "sound" /\ inbound[f].st \in {"playing", "finished"}}

\* C17: when the unmount cleanup has run, nothing plays, the playback context is not
\* running, and no native sound is still loaded.
C17_TeardownReleasesPlayback ==
  lastOp = "unmount" =>
    /\ Playing = {}
    /\ playbackAudioContextRef # "running"
    /\ Loaded = {}

\* the sockets of the component that are connecting or open
LiveSockets == {s \in SocketIds : sockets[s].phase \in {"CONNECTING", "OPEN"}}

\* C18: at most one socket created by the component is in CONNECTING or OPEN state.
C18_SingleSocket ==
  Cardinality(LiveSockets) <= 1

\* the capture sources that deliver frames: the connected processors on the web, the
\* 'data' listeners of the running native recorder
Deliverers ==
  Cardinality(graphs) + (IF nativeState = "running" THEN listeners ELSE 0)

\* C19: at most one capture source delivers frames at any time.
C19_SingleCapture ==
  Deliverers <= 1

StopFrames == SumTo([s \in SocketIds |-> Count(stopEventFrame, sent[s])], MaxSockets + 1)

\* C20 (as stated): when stopRecording marks the session as no longer recording, the teardown of
\* the capture resource is complete: no stop of a native stream is still awaited and
\* the capture references are cleared.
C20_TeardownBeforeNotRecording ==
  [][ ( /\ lastOp' \in {"stopRecording", "oncloseStopRecording"}
        /\ isRecording /\ ~isRecording' )
      => ( /\ pendingStops' = pendingStops
           /\ nativeState' # "stopping"
           /\ captureRefs' = << NULL, NULL, NULL, FALSE, NULL >> ) ]_vars

\* C20 (amended): stopRecording marks the session as no longer recording in its first
\* step, before the teardown, and sends the stop frame only when the teardown is
\* complete: the capture references are cleared.
C20_MarkedFirstStopFrameLast ==
  [][ /\ (lastOp' \in {"stopRecording", "oncloseStopRecording"} /\ mounted)
          => ~isRecording'
      /\ ( /\ lastOp' \in {"stopRecording", "oncloseStopRecording", "stopRecordingResume"}
           /\ StopFrames' # StopFrames )
          => captureRefs' = << NULL, NULL, NULL, FALSE, NULL >> ]_vars

\* the stop frame was sent by stopRecording after its awaited native teardown, while
\* the session was already marked as not recording
C20_Witness ==
  /\ lastOp = "stopRecordingResume"
  /\ platform = "native" /\ ~isRecording
  /\ StopFrames > 0
  /\ nativeState = "stopped"

\* ---- what the demultiplexing and log claims speak of
ServerTextEntries == {"Server: text", "Server: parsed JSON", "Server: data"}

playbackState ==
  << isPlayingAudio, soundRef, playbackAudioContextRef, audioQueueRef, isPlayingRef,
     audioSourceRef, rendered, dequeued >>

\* the entry e was put in front of the log
Logged(e) == messages' = newest(<< e >> \o messages)

\* C21: a text message appends exactly one entry to the log and changes nothing else;
\* a binary message is handed to playback and is not logged as server text.
C21_Demultiplexing ==
  [][ (lastOp' = "onmessage" /\ mounted)
      => IF inbound'[arrived'].payload.binary
         THEN /\ inbound'[arrived'].st # "text"
              /\ \A e \in ServerTextEntries : ~Logged(e)
         ELSE /\ \E e \in ServerTextEntries : Logged(e)
              /\ UNCHANGED << isConnected, connectionStatus, isRecording, wsRef, sockets,
                              captureState, playbackState >> ]_vars

\* the steps whose handler always adds a log entry
LoggingOps ==
  { "onopen", "onclose", "oncloseStopRecording", "startRecording", "stopRecording",
    "captureStarted", "captureFailed", "onmessage" }

\* C22: clearing the log empties it and leaves the connection, the recording, the
\* socket, the capture and the playback as they were, and the events handled after it
\* are appended to the log again.
C22_ClearLeavesSessionUnchanged ==
  [][ /\ lastOp' = "clearMessages"
          => ( /\ messages' = << >>
               /\ UNCHANGED << isConnected, isRecording, connectionStatus, wsRef, sockets,
                               sent, isRecordingRef, captureState, pendingStarts,
                               pendingStops, playbackState, inbound, arrived >> )
      /\ (messages = << >> /\ lastOp' \in LoggingOps) => messages' # << >> ]_vars

\* the log was cleared while the session was recording and a chunk was queued
C22_Witness ==
  /\ lastOp = "clearMessages"
  /\ isConnected /\ isRecording /\ graphs # {}
  /\ audioQueueRef # << >>

\* the sockets created so far
CreatedSockets == {s \in SocketIds : sockets[s].phase # "NONE"}

\* C23: a socket is created only by the step of a Connect press and a record request
\* is accepted only by the step of a Record press; the error and close handlers create
\* no socket, start no capture and do not mark the session as recording.
C23_NoAutomaticReconnect ==
  [][ /\ CreatedSockets' # CreatedSockets => lastOp' = "connectWebSocket"
      /\ (accepted' # accepted \/ pendingStarts' > pendingStarts)
          => lastOp' = "startRecording"
      /\ lastOp' \in {"onerror", "onclose", "oncloseStopRecording"}
          => ( /\ CreatedSockets' = CreatedSockets
               /\ captureSeq' = captureSeq /\ listeners' = listeners
               /\ ~isRecording => ~isRecording' ) ]_vars

\* the session's socket failed while recording and has closed; nothing is connecting
\* and no record request is pending
C23_Witness ==
  /\ lastOp \in {"onclose", "oncloseStopRecording"}
  /\ errorDuringRec
  /\ LiveSockets = {} /\ pendingStarts = 0

\* the numbers of the buffers sent on socket s, in the order they were sent
SentBuffers(s) ==
  LET idx == {i \in 1 .. Len(sent[s]) : sent[s][i].kind = "A"}
  IN [i \in idx |-> sent[s][i].seq]

\* C24: on every socket, of two audio frames the one sent first was made from the
\* buffer delivered first (or from the same buffer).
C24_SentInCaptureOrder ==
  \A s \in SocketIds :
    \A i, j \in DOMAIN SentBuffers(s) : i < j => SentBuffers(s)[i] <= SentBuffers(s)[j]

\* three buffers were delivered and all three were sent on one socket
C24_Witness ==
  \E s \in SocketIds : {SentBuffers(s)[i] : i \in DOMAIN SentBuffers(s)} = 1 .. MaxBuffers

\* C25: when the close event of the session's socket is handled, whatever closed the
\* socket, isConnected is false, the status reads Disconnected and wsRef is cleared.
C25_CloseSurfacedAsDisconnected ==
  [][ ( /\ mounted /\ wsRef # NULL
        /\ sockets[wsRef].phase # "CLOSED" /\ sockets'[wsRef].phase = "CLOSED" )
      => ( /\ ~isConnected'
           /\ connectionStatus' = StatusDisconnected
           /\ wsRef' = NULL ) ]_vars

\* the only socket created failed while recording and its close event has been handled
C25_Witness ==
  /\ lastOp \in {"onclose", "oncloseStopRecording"} /\ mounted
  /\ Cardinality(CreatedSockets) = 1 /\ errorDuringRec
  /\ ~isConnected /\ connectionStatus = StatusDisconnected /\ wsRef = NULL

\* C26: disconnect does nothing when no socket exists, and a second call right after
\* the first changes nothing more.
C26_DisconnectIdempotent ==
  /\ wsRef = NULL => disconnectWebSocket(Cur) = Cur
  /\ disconnectWebSocket(disconnectWebSocket(Cur)) = disconnectWebSocket(Cur)

\* Disconnect was pressed, the socket is closing, and the button is still there to be
\* pressed again
C26_Witness ==
  /\ lastOp = "disconnectWebSocket"
  /\ mounted /\ isConnected
  /\ wsRef # NULL /\ sockets[wsRef].phase = "CLOSING"

\* ---- what the codec claims speak of
\* the n bytes of buffer h from offset off, and the little-endian numbers read there
bytesAt(h, off, n) == SubSeq(h, off + 1, off + n)
uint32At(h, off) ==
  h[off + 1] + 256 * h[off + 2] + 65536 * h[off + 3] + 16777216 * h[off + 4]
uint16At(h, off) == h[off + 1] + 256 * h[off + 2]

\* the layout of the header h, for sample rate rate and bits bits per sample; the byte
\* rate and the block align are compared as exact fractions
HeaderLayout(h, rate, bits) ==
  /\ Len(h) = 44
  /\ bytesAt(h, 0, 4) = RIFF /\ bytesAt(h, 8, 4) = WAVE
  /\ bytesAt(h, 12, 4) = fmtTag /\ bytesAt(h, 36, 4) = dataTag
  /\ uint32At(h, 4) = 0 /\ uint32At(h, 40) = 0
  /\ uint32At(h, 16) = 16 /\ uint16At(h, 20) = 1 /\ uint16At(h, 22) = 1
  /\ uint32At(h, 24) = rate
  /\ 8 * uint32At(h, 28) = rate * 1 * bits
  /\ 8 * uint16At(h, 32) = 1 * bits
  /\ uint16At(h, 34) = bits

ClampedScaled(x, y) ==
  /\ y \in (0 - 32768)..32767
  /\ x.nan => y = 0
  /\ (~x.nan /\ x.num >= Resolution) => y = 32767
  /\ (~x.nan /\ x.num <= 0 - Resolution) => y = 0 - 32768
  /\ (~x.nan /\ x.num = 0) => y = 0
  /\ (~x.nan /\ x.num > 0 /\ x.num < Resolution)
       => (y * Resolution <= x.num * 32767 /\ x.num * 32767 < (y + 1) * Resolution)
  /\ (~x.nan /\ x.num < 0 /\ x.num > 0 - Resolution)
       => (y * Resolution >= x.num * 32768 /\ x.num * 32768 > (y - 1) * Resolution)

\* C29: the capture conversion maps every sample into the signed 16-bit range: the input
\* is clamped to [-1, 1], a negative value is scaled by 32768 and a non-negative one by
\* 32767, so 1.5 gives 32767, -1.5 gives -32768, 0 gives 0, and no converted sample is
\* outside [-32768, 32767].
C29_ClampedLinearScaling ==
  lastOp = "convert"
    => /\ Len(fnResult) = Len(fnArgs)
       /\ \A i \in 1..Len(fnArgs) : ClampedScaled(fnArgs[i], fnResult[i])

\* a block holding 1.5 and -1.5 has been converted
C29_Witness ==
  /\ lastOp = "convert"
  /\ Len(fnArgs) = 2
  /\ ~fnArgs[1].nan /\ 2 * fnArgs[1].num = 3 * Resolution /\ fnResult[1] = 32767
  /\ ~fnArgs[2].nan /\ 2 * fnArgs[2].num = 0 - 3 * Resolution /\ fnResult[2] = 0 - 32768

\* ---- what the classification claim speaks of
\* at least 12 bytes, "RIFF" at bytes 0-3 and "WAVE" at bytes 8-11
RiffWave(b) ==
  /\ Len(b) >= 12
  /\ b[1] = 82 /\ b[2] = 73 /\ b[3] = 70 /\ b[4] = 70
  /\ b[9] = 87 /\ b[10] = 65 /\ b[11] = 86 /\ b[12] = 69

QueuedIds(q) == {q[i].id : i \in 1..Len(q)}

\* C28: isWavFile classifies a received buffer as a container exactly when it has at
\* least 12 bytes with "RIFF" at bytes 0-3 and "WAVE" at bytes 8-11, every other buffer
\* as raw; and the path taken on the web follows it: a container goes to the one-shot
\* decode and never onto the queue, a raw buffer never goes to the decoder and, when it
\* converts to samples, is pushed onto the queue.
C28_PathFollowsClassification ==
  [][(lastOp' = "onmessage" /\ arrived' = arrived + 1)
       => LET f == arrived'
              data == inbound'[f].payload
          IN /\ isWavFile(data) = RiffWave(data.bytes)
             /\ RiffWave(data.bytes)
                  => /\ inbound'[f].st = "decoding"
                     /\ audioQueueRef' = audioQueueRef /\ dequeued' = dequeued
             /\ ~RiffWave(data.bytes)
                  => /\ inbound'[f].st # "decoding"
                     /\ byteLength(data) % 2 = 0
                          => f \in QueuedIds(audioQueueRef') \/ dequeued' = Append(dequeued, f)]_vars

\* a 12-byte container is being decoded while a buffer that differs from it in its last
\* byte plays from the queue and a 13-byte buffer holding it was dropped
C28_Witness ==
  \E f, g, h \in FrameIds :
    /\ inbound[f].payload.bytes = riffWave12 /\ inbound[f].st = "decoding"
    /\ inbound[g].payload.bytes = [riffWave12 EXCEPT ![12] = 0] /\ inbound[g].st = "playing"
    /\ inbound[h].payload.bytes = << 0 >> \o riffWave12 /\ inbound[h].st = "dropped"

\* ---- what the connection-state claim speaks of
\* isConnected is true only while wsRef refers to a socket in OPEN state
ConnectedMeansOpenSocket ==
  isConnected => (wsRef # NULL /\ sockets[wsRef].phase = "OPEN")

\* this step delivers an open, error or close event of socket s, and a later connect
\* had created another socket before
SupersededSocketEvent(s) ==
  /\ s < Created(Cur)
  /\ sockets'[s].phase # sockets[s].phase
  /\ lastOp' \in {"onopen", "onerror", "onclose", "oncloseStopRecording"}

\* C30: in every reachable state isConnected being true implies that wsRef refers to a
\* socket in OPEN state, and an event of a superseded socket never clears wsRef nor
\* changes isConnected.
C30_ConnectedSocketIsCurrentAndOpen ==
  /\ []ConnectedMeansOpenSocket
  /\ [][\A s \in SocketIds :
          SupersededSocketEvent(s) => (wsRef' = wsRef /\ isConnected' = isConnected)]_vars


\* ---- what the claims about sending while recording speak of
\* C31: an audio frame is sent only while the session is recording: whenever a capture
\* callback, the graph's or the native one, sends a captured buffer, isRecording is true.
C31_AudioOnlyWhileRecording ==
  [][AudioFrames' > AudioFrames => isRecording]_vars

\* ---- what the scheduler claim speaks of
Started == {rendered[i] : i \in 1 .. Len(rendered)}

\* C32: every raw PCM chunk pushed onto the playback queue is eventually started, given
\* that every started source fires its ended callback and nothing is torn down; and
\* isPlayingRef is never true while no queued chunk's source is playing or has its ended
\* callback pending.
C32_QueuedChunkEventuallyStarted ==
  /\ \A f \in FrameIds : (inbound[f].st = "queued") ~> (f \in Started)
  /\ [](isPlayingRef => CompletionPending # {})

\* C33: while the component is mounted, isPlayingAudio is true whenever response audio
\* is playing or is waiting in the queue: it is false only when no source plays and the
\* queue is empty.
C33_PlayingFlagCoversPlayback ==
  (mounted /\ (Playing # {} \/ audioQueueRef # << >>)) => isPlayingAudio

\* ---- what the claim about a failed capture start speaks of
\* no capture source has started so far: every record request accepted so far failed or
\* is still waiting
NoCaptureStarted == captureSeq = 0 /\ listeners = 0

OnlyHeaders(q) == \A i \in 1 .. Len(q) : q[i] = wavHeaderFrame

\* C34: when a record request passed the connection check and the capture source then
\* fails to start, the header is the only frame of that request: the header was sent
\* before the capture was attempted, the failure sends nothing and leaves isRecording
\* false, and as long as no capture source has started no audio frame and no stop frame
\* is sent.
C34_HeaderOnlyOnFailedCapture ==
  /\ [](NoCaptureStarted => \A s \in SocketIds : OnlyHeaders(sent[s]))
  /\ [][lastOp' = "captureFailed"
         => /\ \E s \in SocketIds : Count(wavHeaderFrame, sent[s]) > 0
            /\ sent' = sent
            /\ ~isRecording => ~isRecording']_vars

\* ---- what the useRecipes claims speak of
InFlight == {c \in CallIds : calls[c].pc \notin {"none", "done"}}

\* C35: loading is true whenever at least one recipe operation is in flight and false
\* when none is, the nested addRecipe of parseRecipeFromUrl included.
C35_LoadingWhileInFlight ==
  loading = (InFlight # {})

Listed == {recipes[i] : i \in 1 .. Len(recipes)}

\* C36: once every operation that was started has completed, the local recipes list
\* holds exactly the recipes stored for the user, each of them once.
C36_ListEqualsStored ==
  (started > 0 /\ InFlight = {})
    => (Listed = stored /\ Len(recipes) = Cardinality(stored))

\* call c is a deleteRecipe whose await of the database, or of the vector store, is
\* handled in this step
DeleteAfterDatabase(c) ==
  calls[c].kind = "deleteRecipe" /\ calls[c].pc = "dbReplied" /\ calls'[c].pc # "dbReplied"
DeleteAfterChroma(c) ==
  calls[c].kind = "deleteRecipe" /\ calls[c].pc = "chromaDelete" /\ calls'[c].pc # "chromaDelete"

\* C37: deleteRecipe removes the recipe from the local list and returns success exactly
\* when the database delete succeeded: after a failed database delete the list is
\* unchanged, no vector-store request is made, the error state is set and an error is
\* returned; after a successful one the vector-store request is made and, whether it
\* fails or not, the recipe is removed, the error state is left alone and success is
\* returned.
C37_DeleteFollowsDatabase ==
  /\ [](\A c \in CallIds :
          (calls[c].kind = "deleteRecipe" /\ calls[c].pc = "done")
            => /\ (calls[c].result = "success") = calls[c].ok
               /\ (calls[c].result = "error") = ~calls[c].ok
               /\ calls[c].chroma = (IF calls[c].ok THEN 1 ELSE 0))
  /\ [][\A c \in CallIds :
          /\ (DeleteAfterDatabase(c) /\ ~calls[c].ok)
               => /\ recipes' = recipes
                  /\ error' # NoError
                  /\ calls'[c].pc = "done" /\ calls'[c].chroma = 0
          /\ (DeleteAfterDatabase(c) /\ calls[c].ok)
               => /\ recipes' = recipes /\ error' = error
                  /\ calls'[c].pc = "chromaDelete" /\ calls'[c].chroma = 1
          /\ DeleteAfterChroma(c)
               => /\ Listed' = Listed \ {calls[c].id}
                  /\ error' = error
                  /\ calls'[c].pc = "done" /\ calls'[c].result = "success"]_vars

\* a database delete failed and left the recipe listed; a second delete of it succeeded
\* at the database, its vector-store request failed, and the recipe is gone
C37_Witness ==
  /\ lastOp = "resumeChromaFailed"
  /\ \E c, d \in CallIds :
       /\ calls[c].kind = "deleteRecipe" /\ calls[c].result = "error"
       /\ calls[d].kind = "deleteRecipe" /\ calls[d].result = "success"
       /\ c < d /\ calls[c].id = calls[d].id
       /\ calls[d].id \notin Listed

====
